---- MODULE Spec2Model ----
(***************************************************************************)
(* Model of the contract_schema package: the Document builder lifecycle    *)
(* (contract_schema/document.py), the recursive validator                  *)
(* (contract_schema/validator.py) and the content hasher                   *)
(* (contract_schema/utils.py).                                             *)
(*                                                                         *)
(* Python values are tagged records [k |-> kind, v |-> payload]; a dict is *)
(* a sequence of <<key, value>> pairs in insertion order, as CPython keeps *)
(* it.  A SHA-256 digest is a str whose payload is the canonical form it   *)
(* digests (kind "sha256"), i.e. the digest is taken to be collision free. *)
(***************************************************************************)
EXTENDS Integers, Sequences, FiniteSets, TLC

VARIABLES schema, doc, finalised, clock, file, last,
          callValue, callOther, callNode, callResult, heap, returned

vars == <<schema, doc, finalised, clock, file, last,
          callValue, callOther, callNode, callResult, heap, returned>>

\* The state of a Document and its surroundings.
documentVars == <<schema, doc, finalised, clock, file, last>>
\* The arguments and the outcome of a call of validate or of _hash.
callVars == <<callValue, callOther, callNode, callResult>>
\* The objects a Contract's schema and its returned mappings refer to.
contractVars == <<heap, returned>>

-----------------------------------------------------------------------------
(* Bounds of the model.                                                    *)

\* The wall clock runs from second 0 to second MaxClock.
MaxClock == 1
\* add_message is offered while the log holds fewer than MaxMessages entries.
MaxMessages == 1

-----------------------------------------------------------------------------
(* Python values.                                                          *)

PyStr(s)   == [k |-> "str",  v |-> s]
PyInt(n)   == [k |-> "int",  v |-> n]
PyBool(b)  == [k |-> "bool", v |-> b]
PyNone     == [k |-> "NoneType", v |-> 0]
PyDict(ps) == [k |-> "dict", v |-> ps]
PyList(xs) == [k |-> "list", v |-> xs]
PyTuple(xs) == [k |-> "tuple", v |-> xs]
\* A pandas DataFrame, identified by the JSON text to_json(orient="split") gives.
DataFrame(js) == [k |-> "DataFrame", v |-> js]
\* The hex digest (a str) of the bytes that the canonical form c stands for.
Sha256(c) == [k |-> "sha256", v |-> c]

\* type(value).__name__
TypeName(x) == IF x.k = "sha256" THEN "str" ELSE x.k

\* isinstance(x, str)
IsStr(x) == x.k \in {"str", "sha256"}

-----------------------------------------------------------------------------
(* dict: a sequence of <<key, value>> pairs with distinct keys.            *)

Keys(d) == {d[i][1] : i \in 1..Len(d)}

Has(d, key) == key \in Keys(d)

\* d[key], defined when Has(d, key)
Get(d, key) == d[CHOOSE i \in 1..Len(d) : d[i][1] = key][2]

\* d.get(key, dflt)
GetOr(d, key, dflt) == IF Has(d, key) THEN Get(d, key) ELSE dflt

\* d[key] = val: an existing key keeps its position, a new key goes last.
Put(d, key, val) ==
    IF Has(d, key)
    THEN [i \in 1..Len(d) |-> IF d[i][1] = key THEN <<key, val>> ELSE d[i]]
    ELSE Append(d, <<key, val>>)

\* del d[key], defined when Has(d, key)
Del(d, key) == SelectSeq(d, LAMBDA p : p[1] # key)

-----------------------------------------------------------------------------
(* Strings of the model and what the string functions make of them.        *)

\* Every dict key and field name of the model, in the order sorted() gives.
NameOrder ==
    << "__dataframe_sha256__", "a", "alpha", "analytic_id", "analytic_name",
       "analytic_parameters", "analytic_version", "author", "b", "bad_field",
       "count", "data", "data_source", "execution_environment", "exit_code",
       "export_dtg", "finalization_dtg", "findings", "findings_hash",
       "hardware_specs", "initialization_dtg", "input_data_hash",
       "input_hash", "input_schema_version", "inputs", "learning_task",
       "level", "level1", "level2", "library_dependencies", "messages",
       "model_file_hash", "model_file_path", "model_type", "name",
       "operating_system", "output_schema_version", "p", "param",
       "python_version", "records_processed", "run_duration_seconds",
       "run_end_dtg", "run_host", "run_id", "run_start_dtg", "run_user",
       "status", "tags", "text", "timestamp", "total_runtime_seconds",
       "username", "verbosity", "x", "zeta" >>

\* sorted(S) for a set S of names
Sorted(S) == SelectSeq(NameOrder, LAMBDA n : n \in S)

\* datetime.isoformat(timespec="seconds") of the UTC second n, for n = 0, 1, ...
IsoTable ==
    << "2025-06-01T00:00:00+00:00", "2025-06-01T00:00:01+00:00",
       "2025-06-01T00:00:02+00:00", "2025-06-01T00:00:03+00:00",
       "2025-06-01T00:00:04+00:00", "2025-06-01T00:00:05+00:00",
       "2025-06-01T00:00:06+00:00", "2025-06-01T00:00:07+00:00" >>

\* The same instants written with the Z marker.
ZuluTable ==
    << "2025-06-01T00:00:00Z", "2025-06-01T00:00:01Z",
       "2025-06-01T00:00:02Z", "2025-06-01T00:00:03Z",
       "2025-06-01T00:00:04Z", "2025-06-01T00:00:05Z",
       "2025-06-01T00:00:06Z", "2025-06-01T00:00:07Z" >>

\* Strings datetime.fromisoformat reads as a naive datetime (no offset).
NaiveTable == << "2025-06-01T00:00:00" >>

Range(f) == {f[i] : i \in DOMAIN f}

IndexOf(tbl, s) == CHOOSE i \in DOMAIN tbl : tbl[i] = s

\* s.replace("Z", "+00:00") on the strings of the model
ReplaceZ(s) == IF s \in Range(ZuluTable) THEN IsoTable[IndexOf(ZuluTable, s)] ELSE s

\* datetime.fromisoformat(s): an aware instant, a naive one, or ValueError
FromIso(s) ==
    IF s \in Range(IsoTable) THEN [ok |-> TRUE, aware |-> TRUE, sec |-> IndexOf(IsoTable, s) - 1]
    ELSE IF s \in Range(NaiveTable) THEN [ok |-> TRUE, aware |-> FALSE, sec |-> IndexOf(NaiveTable, s) - 1]
    ELSE [ok |-> FALSE]

\* _DT_RE.fullmatch(s): date, T, time to seconds, and a mandatory Z or offset
MatchesDtRe(s) == s \in Range(IsoTable) \cup Range(ZuluTable)

\* utils._is_datetime
IsDatetime(x) ==
    /\ x.k = "str"
    /\ MatchesDtRe(x.v)
    /\ FromIso(ReplaceZ(x.v)).ok

\* f"[{idx}]" for idx = 0, 1, ...
IndexLabel == << "[0]", "[1]", "[2]", "[3]", "[4]", "[5]", "[6]", "[7]" >>

\* str.upper() on the level strings of the model
Upper(s) ==
    CASE s = "info"  -> "INFO"
      [] s = "Info"  -> "INFO"
      [] s = "debug" -> "DEBUG"
      [] s = "trace" -> "TRACE"
      [] OTHER       -> s

-----------------------------------------------------------------------------
(* utils._TYPE_MAP and the validator.                                      *)
(*                                                                         *)
(* A schema node is a record holding the keys the node's dict holds, among *)
(* type, enum, format, fields, required, additionalProperties, items and   *)
(* subtype; `type` is written as the list `allowed` that validate makes of *)
(* it, and `fields` is a function from field name to node.                 *)

\* schema.get(key) is not None / key in schema
Declares(node, key) == key \in DOMAIN node

\* The node {} that fields.get(k, {}) gives for an undeclared key.
EmptyNode == [x \in {} |-> 0]

\* isinstance(x, _TYPE_MAP.get(t, object)); bool is a subclass of int, and a
\* tag the map does not hold stands for `object`, which every value is.
IsInstance(x, t) ==
    CASE t = "string"    -> IsStr(x)
      [] t = "integer"   -> x.k \in {"int", "bool"}
      [] t = "number"    -> x.k \in {"int", "bool", "float"}
      [] t = "boolean"   -> x.k = "bool"
      [] t = "object"    -> x.k = "dict"
      [] t = "list"      -> x.k = "list"
      [] t = "dataframe" -> x.k = "DataFrame"
      [] OTHER           -> TRUE

\* value in enum: Python's ==, under which True == 1 and False == 0.
PyEq(a, b) ==
    IF a.k \in {"int", "bool"} /\ b.k \in {"int", "bool"}
    THEN (IF a.k = "bool" THEN (IF a.v THEN 1 ELSE 0) ELSE a.v)
         = (IF b.k = "bool" THEN (IF b.v THEN 1 ELSE 0) ELSE b.v)
    ELSE a = b

InEnum(x, enum) == \E i \in 1..Len(enum) : PyEq(x, enum[i])

\* The declared type list, with `object` inferred from `fields`.
STypeOf(node) ==
    IF Declares(node, "type") THEN node.type
    ELSE IF Declares(node, "fields") THEN <<"object">>
    ELSE <<>>

\* The outcome of a call that returns.
Ok == [kind |-> "none"]

SchemaError(path, rule, detail) ==
    [kind |-> "SchemaError", path |-> path, rule |-> rule, detail |-> detail]

\* {k for k, meta in fields.items() if meta.get("required")}.  The key
\* `required` of a node holds a boolean marker (record key required) or a
\* list of names (record key required_names); a non-empty list is truthy.
RequiredOf(fields) ==
    {n \in DOMAIN fields :
        \/ Declares(fields[n], "required") /\ fields[n].required
        \/ Declares(fields[n], "required_names") /\ fields[n].required_names # <<>>}

\* Mutant of AdditionalProperties: a node is closed unless it says otherwise.
AdditionalPropertiesClosed(node) ==
    IF Declares(node, "additionalProperties") THEN node.additionalProperties ELSE FALSE

\* schema.get("additionalProperties", True)
AdditionalProperties(node) ==
    IF Declares(node, "additionalProperties") THEN node.additionalProperties ELSE TRUE

\* The item schema of a list node: items, else {type: [subtype]}, else none.
ItemSchema(node) ==
    IF Declares(node, "items") THEN <<node.items>>
    ELSE IF Declares(node, "subtype") THEN << [type |-> <<node.subtype>>] >>
    ELSE <<>>

RECURSIVE validate(_, _, _)
RECURSIVE validateChildren(_, _, _, _)
RECURSIVE validateItems(_, _, _, _)

\* Mutant of validateChildren: every child is visited and the last failure
\* is the one reported.
RECURSIVE validateChildrenLast(_, _, _, _)
validateChildrenLast(pairs, fields, path, i) ==
    IF i > Len(pairs) THEN Ok
    ELSE LET key  == pairs[i][1]
             sub  == IF key \in DOMAIN fields THEN fields[key] ELSE EmptyNode
             rest == validateChildrenLast(pairs, fields, path, i + 1)
         IN IF rest.kind # "none" THEN rest
            ELSE validate(pairs[i][2], sub, Append(path, key))

\* Mutant of validateItems: only the head of the list is validated.
validateItemsHead(items, node, path, i) ==
    IF i > Len(items) \/ i > 1 THEN Ok
    ELSE validate(items[i], node, Append(path, IndexLabel[i]))

\* for k, v in value.items(): validate(v, fields.get(k, {}), path.k), from pair i
validateChildren(pairs, fields, path, i) ==
    IF i > Len(pairs) THEN Ok
    ELSE LET key == pairs[i][1]
             sub == IF key \in DOMAIN fields THEN fields[key] ELSE EmptyNode
             r   == validate(pairs[i][2], sub, Append(path, key))
         IN IF r.kind # "none" THEN r
            ELSE validateChildren(pairs, fields, path, i + 1)

\* for idx, item in enumerate(value): validate(item, item_schema, path[idx])
validateItems(items, node, path, i) ==
    IF i > Len(items) THEN Ok
    ELSE LET r == validate(items[i], node, Append(path, IndexLabel[i]))
         IN IF r.kind # "none" THEN r
            ELSE validateItems(items, node, path, i + 1)

\* validator.validate(value, schema=node, path=path): Ok, or the SchemaError
\* of the first rule that fails.
validate(value, node, path) ==
    LET allowed == STypeOf(node)
        isObj   == value.k = "dict" /\ Declares(node, "fields")
        missing == IF isObj THEN RequiredOf(node.fields) \ Keys(value.v) ELSE {}
        extras  == IF isObj THEN Keys(value.v) \ DOMAIN node.fields ELSE {}
        addl    == AdditionalProperties(node)
    IN  IF /\ Len(allowed) > 0
           /\ ~ \E i \in 1..Len(allowed) : IsInstance(value, allowed[i])
        THEN SchemaError(path, "type", <<allowed, TypeName(value)>>)
        ELSE IF Declares(node, "enum") /\ ~ InEnum(value, node.enum)
        THEN SchemaError(path, "enum", <<value, node.enum>>)
        ELSE IF /\ Declares(node, "format")
                /\ node.format = "date-time"
                /\ ~ IsDatetime(value)
        THEN SchemaError(path, "format", <<value>>)
        ELSE IF isObj /\ missing # {}
        THEN SchemaError(path, "missing required", Sorted(missing))
        ELSE IF isObj /\ addl = FALSE /\ extras # {}
        THEN SchemaError(path, "unexpected fields", Sorted(extras))
        ELSE IF isObj
        THEN validateChildren(value.v, node.fields, path, 1)
        ELSE IF value.k = "list" /\ ItemSchema(node) # <<>>
        THEN validateItems(value.v, ItemSchema(node)[1], path, 1)
        ELSE Ok

-----------------------------------------------------------------------------
(* utils._json_safe and utils._hash.                                       *)

RECURSIVE json_safe(_)

\* DataFrames become their proxy token; dicts are walked, and lists and
\* tuples are walked into lists.
json_safe(x) ==
    CASE x.k = "dict" ->
           PyDict([i \in 1..Len(x.v) |-> <<x.v[i][1], json_safe(x.v[i][2])>>])
      [] x.k \in {"list", "tuple"} ->
           PyList([i \in 1..Len(x.v) |-> json_safe(x.v[i])])
      [] x.k = "DataFrame" ->
           PyDict(<< <<"__dataframe_sha256__", Sha256(PyStr(x.v))>> >>)
      [] OTHER -> x

RECURSIVE dumpsInsertionOrder(_)

\* Mutant of dumpsSorted: json.dumps without sort_keys, every dict's pairs
\* in insertion order.
dumpsInsertionOrder(x) ==
    CASE x.k = "dict" ->
           PyDict([i \in 1..Len(x.v) |-> <<x.v[i][1], dumpsInsertionOrder(x.v[i][2])>>])
      [] x.k = "list" ->
           PyList([i \in 1..Len(x.v) |-> dumpsInsertionOrder(x.v[i])])
      [] OTHER -> x

RECURSIVE dumpsUnorderedLists(_)

\* Mutant of dumpsSorted: sorts the elements of every list as it sorts the
\* keys of every dict, so that a list is spelled as the set of its elements.
dumpsUnorderedLists(x) ==
    CASE x.k = "dict" ->
           LET ks == Sorted(Keys(x.v))
           IN  PyDict([i \in 1..Len(ks) |-> <<ks[i], dumpsUnorderedLists(Get(x.v, ks[i]))>>])
      [] x.k = "list" ->
           [k |-> "list", v |-> {dumpsUnorderedLists(x.v[i]) : i \in 1..Len(x.v)}]
      [] OTHER -> x

RECURSIVE dumpsSorted(_)

\* json.dumps(x, sort_keys=True, separators=(",", ":")): the text, as the
\* tree it spells, every dict's pairs in sorted key order.
dumpsSorted(x) ==
    CASE x.k = "dict" ->
           LET ks == Sorted(Keys(x.v))
           IN  PyDict([i \in 1..Len(ks) |-> <<ks[i], dumpsSorted(Get(x.v, ks[i]))>>])
      [] x.k = "list" ->
           PyList([i \in 1..Len(x.v) |-> dumpsSorted(x.v[i])])
      [] OTHER -> x

\* utils._hash
hash(obj) == Sha256(dumpsSorted(json_safe(obj)))

-----------------------------------------------------------------------------
(* The output schemas a Document is constructed with.                      *)

StrNode  == [type |-> <<"string">>]
DtgNode  == [type |-> <<"string">>, format |-> "date-time"]
DtgReq   == [type |-> <<"string">>, format |-> "date-time", required |-> TRUE]
IntReq   == [type |-> <<"integer">>, required |-> TRUE]

\* The item schema of `messages` in the unit-test schema.
MessageItem ==
    [fields |-> [timestamp |-> DtgReq,
                 level     |-> [type |-> <<"string">>, enum |-> <<PyStr("INFO")>>,
                                required |-> TRUE],
                 text      |-> [type |-> <<"string">>, required |-> TRUE]],
     additionalProperties |-> FALSE]

\* "Unit-Test Output": declares messages, run_id, the environment and inputs.
TestSchema ==
    [type |-> <<"object">>,
     fields |->
       [run_id                |-> StrNode,
        execution_environment |-> [type |-> <<"object">>],
        inputs                |-> [type |-> <<"object">>],
        input_hash            |-> StrNode,
        initialization_dtg    |-> DtgReq,
        finalization_dtg      |-> DtgReq,
        total_runtime_seconds |-> IntReq,
        messages              |-> [type |-> <<"list">>, items |-> MessageItem,
                                   required |-> FALSE]],
     additionalProperties |-> FALSE]

\* "NoMsg": the three timing fields only.
NoMsgSchema ==
    [type |-> <<"object">>,
     fields |->
       [initialization_dtg    |-> DtgReq,
        finalization_dtg      |-> DtgReq,
        total_runtime_seconds |-> IntReq],
     additionalProperties |-> FALSE]

\* A run-record schema: every provenance field finalise() knows how to fill,
\* the two hashed sections and the model-file fields; no messages.
RunSchema ==
    [type |-> <<"object">>,
     fields |->
       [run_id                |-> StrNode,
        run_user              |-> StrNode,
        run_host              |-> StrNode,
        run_start_dtg         |-> DtgNode,
        run_end_dtg           |-> DtgNode,
        run_duration_seconds  |-> [type |-> <<"integer">>],
        analytic_id           |-> [type |-> <<"string">>, required |-> TRUE],
        inputs                |-> [type |-> <<"object">>],
        input_hash            |-> StrNode,
        findings              |-> [type |-> <<"list">>],
        findings_hash         |-> StrNode,
        model_file_path       |-> StrNode,
        model_file_hash       |-> StrNode,
        execution_environment |-> [type |-> <<"object">>],
        initialization_dtg    |-> DtgReq,
        finalization_dtg      |-> DtgReq,
        total_runtime_seconds |-> IntReq],
     additionalProperties |-> FALSE]

Schemas == {TestSchema, NoMsgSchema, RunSchema}

\* self.__schema.get("fields", {})
SchemaFields(sch) == IF Declares(sch, "fields") THEN DOMAIN sch.fields ELSE {}

-----------------------------------------------------------------------------
(* The environment finalise() reads.                                       *)

\* getpass.getuser(), socket.gethostname()
User == "alice"
Host == "host-1"

\* str(uuid.uuid4()): a fresh identifier, one of
Uuids == {"uuid-a", "uuid-b"}

\* The dict finalise() builds from platform, _library_versions, _hardware_specs.
CapturedEnv == PyDict(<< <<"python_version", PyStr("3.11.4")>> >>)

\* The files on disk, by path, each with the bytes it holds.
DiskFiles == [p \in {"model.bin"} |-> PyStr("model-bytes")]

\* utils._sha256(Path(p)): the digest of the file, or an OSError
sha256File(p) ==
    IF p \in DOMAIN DiskFiles THEN [ok |-> TRUE, hex |-> Sha256(DiskFiles[p])]
    ELSE [ok |-> FALSE]

ZeroHash == PyStr("0000000000000000000000000000000000000000000000000000000000000000")

\* utils._now_iso() at clock second c
now_iso(c) == PyStr(IsoTable[c + 1])

-----------------------------------------------------------------------------
(* Document: a dict with a schema and a finalised flag.                    *)

\* The exception a call raises.
Raised(kind) == [kind |-> kind]

\* The outcome of the call op: what it raised, or Ok.
Outcome(op, res) == [op |-> op, res |-> res]

\* What the caller passes to Document(schema=..., **kwargs).
InputsA == PyDict(<< <<"param", PyStr("value")>> >>)
InputsB == PyDict(<< <<"param", PyStr("other")>> >>)

KwargsChoices ==
    { <<>>,
      << <<"inputs", InputsA>> >>,
      << <<"inputs", InputsB>>, <<"input_hash", PyStr("stale")>> >>,
      << <<"run_id", PyStr("caller-run")>>, <<"run_user", PyStr("bob")>>,
         <<"run_host", PyStr("caller-host")>>,
         <<"execution_environment", PyDict(<<>>)>> >>,
      << <<"analytic_id", PyStr("a1")>>, <<"inputs", InputsA>>,
         <<"findings", PyList(<<>>)>>, <<"model_file_path", PyStr("model.bin")>> >>,
      << <<"analytic_id", PyStr("a1")>>, <<"model_file_path", PyStr("missing.bin")>> >> }

\* Document.__init__: the kwargs, then initialization_dtg = now.
DocumentInit(kwargs, c) == Put(kwargs, "initialization_dtg", now_iso(c))

\* Mutant of Maybe: the end of the run is assigned on every attempt, the way
\* finalization_dtg is.
MaybeRestamp(sch, d, field, value) ==
    IF /\ field \in SchemaFields(sch)
       /\ (~ Has(d, field) \/ field \in {"run_end_dtg", "run_duration_seconds"})
    THEN Put(d, field, value)
    ELSE d

\* _maybe(field, value): write only if the schema expects the field and the
\* caller has not supplied one already.
Maybe(sch, d, field, value) ==
    IF field \in SchemaFields(sch) /\ ~ Has(d, field)
    THEN Put(d, field, value)
    ELSE d

\* The provenance defaults of finalise(), in the order it writes them.
FillProvenance(sch, d, uuid) ==
    LET f1 == Maybe(sch, d,  "run_id", PyStr(uuid))
        f2 == Maybe(sch, f1, "run_user", PyStr(User))
        f3 == Maybe(sch, f2, "run_host", PyStr(Host))
        f4 == Maybe(sch, f3, "run_start_dtg", Get(f3, "initialization_dtg"))
        f5 == Maybe(sch, f4, "run_end_dtg", Get(f4, "finalization_dtg"))
        f6 == Maybe(sch, f5, "run_duration_seconds", Get(f5, "total_runtime_seconds"))
        f7 == Maybe(sch, f6, "analytic_id", PyStr("UNKNOWN"))
        f8 == Maybe(sch, f7, "analytic_name", PyStr("UNKNOWN"))
        f9 == Maybe(sch, f8, "analytic_version", PyStr("UNKNOWN"))
        inputs == GetOr(f9, "inputs", PyDict(<<>>))
        isv == IF inputs.k = "dict"
               THEN GetOr(inputs.v, "input_schema_version", PyStr("UNKNOWN"))
               ELSE PyStr("UNKNOWN")
        f10 == Maybe(sch, f9, "input_schema_version", isv)
    IN  Maybe(sch, f10, "output_schema_version", PyStr("UNKNOWN"))

\* Mutant of FillHashes: treats the hashes like the _maybe fields.
FillHashesIfAbsent(sch, d) ==
    LET h1 == IF Has(d, "inputs")
              THEN Maybe(sch, d, "input_hash", hash(Get(d, "inputs")))
              ELSE d
    IN  IF Has(h1, "findings")
        THEN Maybe(sch, h1, "findings_hash", hash(Get(h1, "findings")))
        ELSE h1

\* The hashes of the sections present, when the schema has their fields.
FillHashes(sch, d) ==
    LET h1 == IF Has(d, "inputs") /\ "input_hash" \in SchemaFields(sch)
              THEN Put(d, "input_hash", hash(Get(d, "inputs")))
              ELSE d
    IN  IF Has(h1, "findings") /\ "findings_hash" \in SchemaFields(sch)
        THEN Put(h1, "findings_hash", hash(Get(h1, "findings")))
        ELSE h1

\* self.get(key) or ...: the value when present and truthy
Truthy(d, key) ==
    /\ Has(d, key)
    /\ Get(d, key) \notin {PyNone, PyStr(""), PyInt(0), PyBool(FALSE)}

\* The model-file hash: the file's digest, or the 64-zero placeholder when
\* there is no path or reading the file raises.
FillModelHash(sch, d) ==
    IF "model_file_hash" \in SchemaFields(sch) /\ ~ Has(d, "model_file_hash")
    THEN LET path_str == IF Truthy(d, "model_file_path") THEN Get(d, "model_file_path")
                         ELSE IF Truthy(d, "model_path") THEN Get(d, "model_path")
                         ELSE PyNone
             digest == IF path_str.k = "str" THEN sha256File(path_str.v) ELSE [ok |-> FALSE]
         IN  Put(d, "model_file_hash", IF digest.ok THEN digest.hex ELSE ZeroHash)
    ELSE d

\* Mutant of FillEnvironment: assigns instead of setdefault.
FillEnvironmentAlways(sch, d) ==
    IF "execution_environment" \in SchemaFields(sch)
    THEN Put(d, "execution_environment", CapturedEnv)
    ELSE d

\* self.setdefault("execution_environment", {...}) when the schema has it
FillEnvironment(sch, d) ==
    IF "execution_environment" \in SchemaFields(sch) /\ ~ Has(d, "execution_environment")
    THEN Put(d, "execution_environment", CapturedEnv)
    ELSE d

\* Mutant of FinalisedAfter: sets the flag before validating.
FinalisedAlways(res) == TRUE

\* self.__finalised = True is reached only when validate() returned.
FinalisedAfter(res) == res.kind = "none"

\* Document.finalise() on an open document d at clock second c, with uuid the
\* identifier uuid4() draws: the document it leaves, the exception it raises
\* (Ok when it returns) and the finalised flag.
finalise(sch, d, c, uuid) ==
    LET d1   == Put(d, "finalization_dtg", now_iso(c))
        init == Get(d1, "initialization_dtg")
        idt  == FromIso(ReplaceZ(init.v))
        d2   == Put(d1, "total_runtime_seconds", PyInt(c - idt.sec))
        d3   == FillProvenance(sch, d2, uuid)
        d4   == FillHashes(sch, d3)
        d5   == FillModelHash(sch, d4)
        d6   == FillEnvironment(sch, d5)
        res  == validate(PyDict(d6), sch, <<"root">>)
    IN  IF ~ Has(d1, "initialization_dtg")
        THEN [doc |-> d1, err |-> Raised("KeyError"), finalised |-> FALSE]
        ELSE IF ~ IsStr(init)
        THEN [doc |-> d1, err |-> Raised("AttributeError"), finalised |-> FALSE]
        ELSE IF init.k # "str" \/ ~ idt.ok
        THEN [doc |-> d1, err |-> Raised("ValueError"), finalised |-> FALSE]
        ELSE IF ~ idt.aware
        THEN [doc |-> d1, err |-> Raised("TypeError"), finalised |-> FALSE]
        ELSE [doc |-> d6, err |-> res, finalised |-> FinalisedAfter(res)]

\* json.dumps(x) raises TypeError on a value json cannot encode.
RECURSIVE JsonEncodable(_)
JsonEncodable(x) ==
    CASE x.k = "dict" -> \A i \in 1..Len(x.v) : JsonEncodable(x.v[i][2])
      [] x.k = "list" -> \A i \in 1..Len(x.v) : JsonEncodable(x.v[i])
      [] x.k = "DataFrame" -> FALSE
      [] OTHER -> TRUE

-----------------------------------------------------------------------------
(* The state machine.  `file` is what the file at the save path holds:     *)
(* <<>> while nothing was written, else <<the document written>>.  `last`  *)
(* is the last call made on the document and its outcome.                  *)

\* The variables of the calls and of the contract while a Document is run.
CallIdle ==
    callValue = PyNone /\ callOther = PyNone /\ callNode = EmptyNode /\ callResult = Ok
ContractIdle ==
    heap = <<>> /\ returned = <<>>

Init ==
    /\ schema \in Schemas
    /\ clock = 0
    /\ \E kwargs \in KwargsChoices :
         /\ Keys(kwargs) \subseteq SchemaFields(schema)
         /\ doc = DocumentInit(kwargs, clock)
    /\ finalised = FALSE
    /\ file = <<>>
    /\ last = Outcome("__init__", Ok)
    /\ CallIdle
    /\ ContractIdle

\* The wall clock advances by a second.
Tick ==
    /\ clock < MaxClock
    /\ clock' = clock + 1
    /\ UNCHANGED <<schema, doc, finalised, file, last>>
    /\ UNCHANGED <<callVars, contractVars>>

\* What the caller assigns with doc[key] = value, to the fields the schema
\* declares.
Assignable ==
    { <<"analytic_id", PyInt(123)>>,
      <<"analytic_id", PyStr("a1")>>,
      <<"initialization_dtg", PyStr("2025-06-01T00:00:07Z")>> }

\* dict.__setitem__, which Document inherits unchanged.
SetItem(key, val) ==
    /\ doc' = Put(doc, key, val)
    /\ last' = Outcome("__setitem__", Ok)
    /\ UNCHANGED <<schema, finalised, clock, file>>
    /\ UNCHANGED <<callVars, contractVars>>

Deletable == {"initialization_dtg"}

\* dict.__delitem__, which Document inherits unchanged.
DelItem(key) ==
    /\ IF Has(doc, key)
       THEN doc' = Del(doc, key) /\ last' = Outcome("__delitem__", Ok)
       ELSE doc' = doc /\ last' = Outcome("__delitem__", Raised("KeyError"))
    /\ UNCHANGED <<schema, finalised, clock, file>>
    /\ UNCHANGED <<callVars, contractVars>>

MessagesOf(d) == GetOr(d, "messages", PyList(<<>>))

Levels == {"info"}

\* Mutant of AddMessage: no check that the schema declares `messages`.
AddMessageUnchecked(level, text) ==
    /\ Len(MessagesOf(doc).v) < MaxMessages
    /\ doc' = Put(doc, "messages",
                  PyList(Append(MessagesOf(doc).v,
                                PyDict(<< <<"timestamp", now_iso(clock)>>,
                                          <<"level", PyStr(Upper(level))>>,
                                          <<"text", PyStr(text)>> >>))))
    /\ last' = Outcome("add_message", Ok)
    /\ UNCHANGED <<schema, finalised, clock, file>>
    /\ UNCHANGED <<callVars, contractVars>>

\* Document.add_message(level, text)
AddMessage(level, text) ==
    /\ IF "messages" \notin SchemaFields(schema)
       THEN doc' = doc /\ last' = Outcome("add_message", Raised("NotImplementedError"))
       ELSE /\ Len(MessagesOf(doc).v) < MaxMessages
            /\ doc' = Put(doc, "messages",
                          PyList(Append(MessagesOf(doc).v,
                                        PyDict(<< <<"timestamp", now_iso(clock)>>,
                                                  <<"level", PyStr(Upper(level))>>,
                                                  <<"text", PyStr(text)>> >>))))
            /\ last' = Outcome("add_message", Ok)
    /\ UNCHANGED <<schema, finalised, clock, file>>
    /\ UNCHANGED <<callVars, contractVars>>

\* Mutant of Finalise: no early return on a finalised document.
FinaliseAgain ==
    /\ \E uuid \in Uuids :
         LET r == finalise(schema, doc, clock, uuid)
         IN  /\ doc' = r.doc
             /\ last' = Outcome("finalise", r.err)
             /\ finalised' = r.finalised
    /\ UNCHANGED <<schema, clock, file>>
    /\ UNCHANGED <<callVars, contractVars>>

\* Document.finalise()
Finalise ==
    /\ IF finalised
       THEN doc' = doc /\ last' = Outcome("finalise", Ok) /\ finalised' = finalised
       ELSE \E uuid \in Uuids :
              LET r == finalise(schema, doc, clock, uuid)
              IN  /\ doc' = r.doc
                  /\ last' = Outcome("finalise", r.err)
                  /\ finalised' = r.finalised
    /\ UNCHANGED <<schema, clock, file>>
    /\ UNCHANGED <<callVars, contractVars>>

\* Mutant of Save: no check of the finalised flag.
SaveUnchecked ==
    /\ file' = <<doc>>
    /\ last' = Outcome("save", Ok)
    /\ UNCHANGED <<schema, doc, finalised, clock>>
    /\ UNCHANGED <<callVars, contractVars>>

\* Document.save(path)
Save ==
    /\ IF ~ finalised
       THEN file' = file /\ last' = Outcome("save", Raised("RuntimeError"))
       ELSE IF ~ JsonEncodable(PyDict(doc))
       THEN file' = file /\ last' = Outcome("save", Raised("TypeError"))
       ELSE file' = <<doc>> /\ last' = Outcome("save", Ok)
    /\ UNCHANGED <<schema, doc, finalised, clock>>
    /\ UNCHANGED <<callVars, contractVars>>

Next ==
    \/ Tick
    \/ \E p \in Assignable : p[1] \in SchemaFields(schema) /\ SetItem(p[1], p[2])
    \/ \E key \in Deletable : DelItem(key)
    \/ \E level \in Levels : AddMessage(level, "hello")
    \/ Finalise
    \/ Save

Spec == Init /\ [][Next]_vars

-----------------------------------------------------------------------------
(* Properties of the Document lifecycle.                                   *)

AddMessageStep == \E level \in Levels : AddMessage(level, "hello")

Raises(kind) == last'.res.kind = kind
Returns == last'.res.kind = "none"

\* C1: save() writes the file only on a document that an earlier finalise()
\* call finalised by returning without error; on a document no finalise() has
\* finalised it raises RuntimeError and leaves the file as it was.
C1_SaveOnlyAfterFinalise ==
    [][ /\ (file' # file => finalised /\ Save)
        /\ (~ finalised /\ finalised' => Finalise /\ Returns)
        /\ (~ finalised /\ Save => file' = file /\ Raises("RuntimeError")) ]_vars

\* save() raised RuntimeError after a finalise() attempt that failed.
C1_Witness ==
    /\ ~ finalised
    /\ Has(doc, "finalization_dtg")
    /\ last = Outcome("save", Raised("RuntimeError"))
    /\ file = <<>>

\* C2: a finalise() whose final validation raises leaves the flag unset; the
\* next save() raises RuntimeError and the next finalise() runs again (it
\* stamps finalization_dtg with the time of that call).
C2_FailedValidationStaysOpen ==
    [][ /\ (Finalise /\ Raises("SchemaError") => ~ finalised')
        /\ (last.res.kind = "SchemaError" /\ Save
              => file' = file /\ Raises("RuntimeError"))
        /\ (last.res.kind = "SchemaError" /\ Finalise
              => Get(doc', "finalization_dtg") = now_iso(clock)) ]_vars

\* finalise() has just failed its final validation, after the clock moved on
\* from an earlier failed attempt.
C2_Witness ==
    /\ ~ finalised
    /\ last.op = "finalise"
    /\ last.res.kind = "SchemaError"
    /\ Has(doc, "run_end_dtg")
    /\ Get(doc, "run_end_dtg") # Get(doc, "finalization_dtg")

\* C3: finalise() on a finalised document returns without raising and leaves
\* every key of the document and the flag as they were, and a save() that
\* follows is not refused.
C3_FinaliseIdempotent ==
    [][ /\ (finalised /\ Finalise => doc' = doc /\ finalised' /\ Returns)
        /\ (finalised /\ last.op = "finalise" /\ Save
              => ~ Raises("RuntimeError")) ]_vars

\* finalise() returned on a finalised document whose finalization_dtg is not
\* the current time.
C3_Witness ==
    /\ finalised
    /\ last = Outcome("finalise", Ok)
    /\ Get(doc, "finalization_dtg") # now_iso(clock)

\* C4: on a finalised document whose schema declares `messages`,
\* add_message returns without raising and leaves the document as it was.
C4_AddMessageAfterFinaliseIsNoOp ==
    [][ (finalised /\ "messages" \in SchemaFields(schema) /\ AddMessageStep)
          => (doc' = doc /\ Returns) ]_vars

\* C5: add_message raises NotImplementedError, and leaves the document as it
\* was, whenever the schema's fields do not declare `messages`, finalised or
\* not.
C5_AddMessageUnsupportedRaises ==
    [][ ("messages" \notin SchemaFields(schema) /\ AddMessageStep)
          => (Raises("NotImplementedError") /\ doc' = doc /\ finalised' = finalised) ]_vars

\* add_message raised NotImplementedError on a finalised document.
C5_Witness ==
    /\ finalised
    /\ "messages" \notin SchemaFields(schema)
    /\ ~ Has(doc, "messages")
    /\ last = Outcome("add_message", Raised("NotImplementedError"))

\* The hash fields of d are the hashes of the sections d holds.
HashesMatch(sch, d) ==
    /\ (Has(d, "inputs") /\ "input_hash" \in SchemaFields(sch))
         => (Has(d, "input_hash") /\ Get(d, "input_hash") = hash(Get(d, "inputs")))
    /\ (Has(d, "findings") /\ "findings_hash" \in SchemaFields(sch))
         => (Has(d, "findings_hash") /\ Get(d, "findings_hash") = hash(Get(d, "findings")))

\* C6: when finalise() succeeds, input_hash is _hash of the `inputs` section
\* in memory and findings_hash is _hash of `findings`, whatever the hash
\* fields held before; a save() that follows writes these values.
C6_HashesRecomputed ==
    [][ /\ (~ finalised /\ finalised' => HashesMatch(schema, doc'))
        /\ (last = Outcome("finalise", Ok) /\ Save /\ Returns
              => file' = <<doc>> /\ HashesMatch(schema, file'[1])) ]_vars

\* The document constructed with a stale input_hash was finalised and saved
\* with the hash of its inputs.
C6_Witness ==
    /\ file # <<>>
    /\ Has(file[1], "inputs")
    /\ Get(file[1], "inputs") = InputsB
    /\ Get(file[1], "input_hash") = hash(InputsB)
    /\ last = Outcome("save", Ok)

\* The second of the timestamp field `key` of d.
SecondOf(d, key) == FromIso(ReplaceZ(Get(d, key).v)).sec

\* C7: when finalise() succeeds, total_runtime_seconds is finalization_dtg
\* minus initialization_dtg in whole seconds and is >= 0, whatever the caller
\* did to the document between construction and finalise().
C7_RuntimeConsistentNonNegative ==
    [][ (~ finalised /\ finalised')
          => /\ Get(doc', "total_runtime_seconds")
                  = PyInt(SecondOf(doc', "finalization_dtg")
                          - SecondOf(doc', "initialization_dtg"))
             /\ Get(doc', "total_runtime_seconds").v >= 0 ]_vars

\* C8: no operation changes the fields of a finalised document.
C8_FinalisedImmutable ==
    [][ finalised => doc' = doc ]_vars

RetainedFields == {"run_id", "run_start_dtg", "run_end_dtg", "run_duration_seconds"}
HashFields == {<<"inputs", "input_hash">>, <<"findings", "findings_hash">>}

\* C9: a finalise() that fails at the final validation leaves what it filled
\* in; a finalise() that then succeeds leaves run_id, run_start_dtg,
\* run_end_dtg and run_duration_seconds as the failed attempt left them, and
\* the hash of each section that was not changed since.
C9_RetryKeepsDerivedFields ==
    [][ /\ (Finalise /\ Raises("SchemaError")
              => /\ Has(doc', "finalization_dtg") /\ Has(doc', "total_runtime_seconds")
                 /\ \A f \in RetainedFields \cap SchemaFields(schema) : Has(doc', f)
                 /\ HashesMatch(schema, doc'))
        /\ (~ finalised /\ Has(doc, "total_runtime_seconds") /\ Finalise /\ finalised'
              => /\ \A f \in RetainedFields :
                      Has(doc, f) => Has(doc', f) /\ Get(doc', f) = Get(doc, f)
                 /\ \A h \in HashFields :
                      (Has(doc, h[1]) /\ Has(doc, h[2])
                         /\ Get(doc, h[2]) = hash(Get(doc, h[1])))
                      => Get(doc', h[2]) = Get(doc, h[2])) ]_vars

\* A retry succeeded later than the failed attempt whose run_end_dtg it kept.
C9_Witness ==
    /\ finalised
    /\ last = Outcome("finalise", Ok)
    /\ Has(doc, "run_end_dtg")
    /\ Get(doc, "run_end_dtg") # Get(doc, "finalization_dtg")
    /\ Get(doc, "analytic_id") = PyStr("a1")

ProvenanceFields == {"run_id", "run_user", "run_host", "execution_environment"}

\* C10: finalise() never overwrites a run_id, run_user, run_host or
\* execution_environment the document already holds, and never adds one of
\* them that the schema does not declare.
C10_CallerValuesTakePrecedence ==
    [][ Finalise
          => \A f \in ProvenanceFields :
               /\ Has(doc, f) => Has(doc', f) /\ Get(doc', f) = Get(doc, f)
               /\ (f \notin SchemaFields(schema) /\ ~ Has(doc, f)) => ~ Has(doc', f) ]_vars

\* A document finalised with the caller's own run_id, user, host and
\* environment.
C10_Witness ==
    /\ finalised
    /\ Has(doc, "run_id") /\ Get(doc, "run_id") = PyStr("caller-run")
    /\ Has(doc, "run_user") /\ Get(doc, "run_user") = PyStr("bob")
    /\ Has(doc, "run_host") /\ Get(doc, "run_host") = PyStr("caller-host")
    /\ Get(doc, "execution_environment") = PyDict(<<>>)

-----------------------------------------------------------------------------
(* validate called on its own.  callValue and callNode are the arguments   *)
(* of the call, callResult the outcomes of the calls made with them so     *)
(* far, oldest first.                                                      *)

\* validate is called at most MaxCalls times on the same arguments.
MaxCalls == 2

\* The variables of a Document while none is run.
DocumentIdle ==
    /\ schema = TestSchema /\ doc = <<>> /\ finalised = FALSE
    /\ clock = 0 /\ file = <<>> /\ last = Outcome("__init__", Ok)

\* The schema of tests/test_validator.py: requirements as per-field markers.
CountNode ==
    [type |-> <<"integer">>, required |-> TRUE,
     enum |-> <<PyInt(1), PyInt(2), PyInt(3)>>]
PersonFields ==
    [name  |-> [type |-> <<"string">>, required |-> TRUE],
     count |-> CountNode,
     tags  |-> [type |-> <<"list">>, subtype |-> "string"]]
PersonSchema == [fields |-> PersonFields]
PersonClosed == [fields |-> PersonFields, additionalProperties |-> FALSE]
PersonOpen   == [fields |-> PersonFields, additionalProperties |-> TRUE]
\* The same requirements as an object-level list.
PersonListForm ==
    [type |-> <<"object">>,
     fields |-> [name  |-> [type |-> <<"string">>],
                 count |-> [type |-> <<"integer">>]],
     required_names |-> <<"count", "name">>]

\* Nodes for a value that is not an object.
LevelNode   == [type |-> <<"string">>, enum |-> <<PyStr("INFO"), PyStr("DEBUG")>>]
ChoiceNode  == [type |-> <<"integer">>, enum |-> <<PyInt(1), PyInt(2), PyInt(3)>>]
UnionNode   == [type |-> <<"string", "integer">>]
ArrayNode   == [type |-> <<"array">>]
ListNode    == [type |-> <<"list">>, subtype |-> "string"]
BooleanNode == [type |-> <<"boolean">>]
PropertiesNode == [properties |-> [name |-> StrNode]]
OneOfNode   == [oneOf |-> << [type |-> <<"string">>], [type |-> <<"list">>] >>]
\* The node of the field `extra`: a string or null.
NullableNode == [type |-> <<"string", "null">>]
\* List nodes with an item schema (which goes before subtype) and with none.
ItemsNode == [type |-> <<"list">>, items |-> [type |-> <<"integer">>], subtype |-> "string"]
PlainListNode == [type |-> <<"list">>]
\* The nested schema of test_deeply_nested_error_path.
DeepNode ==
    [fields |->
        [level1 |->
            [type |-> <<"object">>,
             fields |-> [level2 |-> [type |-> <<"object">>,
                                     fields |-> [bad_field |-> StrNode]]]]]]

ValidateNodes ==
    { PersonSchema, PersonClosed, PersonOpen, PersonListForm, LevelNode,
      ChoiceNode, UnionNode, ArrayNode, ListNode, BooleanNode,
      PropertiesNode, OneOfNode, NullableNode, ItemsNode, PlainListNode,
      DeepNode }

\* The valid document of tests/test_validator.py.
Person == PyDict(<< <<"name", PyStr("foo")>>, <<"count", PyInt(1)>> >>)

\* The nested document of test_deeply_nested_error_path.
Deep ==
    PyDict(<< <<"level1",
                PyDict(<< <<"level2",
                            PyDict(<< <<"bad_field", PyInt(123)>> >>)>> >>)>> >>)

ValidateValues ==
    { Person, Deep, PyStr("INFO"), PyStr("info"), PyInt(1), PyInt(123),
      PyBool(TRUE), PyNone, PyList(<<PyStr("a")>>), PyList(<<PyInt(1)>>),
      PyList(<<PyStr("a"), PyInt(1)>>), PyList(<<PyInt(1), PyStr("a")>>) }

\* What the caller puts into the object before a call.
Puttable ==
    { <<"name", PyStr("foo")>>, <<"name", PyInt(5)>>,
      <<"count", PyInt(1)>>, <<"count", PyInt(4)>>, <<"count", PyBool(TRUE)>>,
      <<"zeta", PyInt(1)>>, <<"alpha", PyList(<<PyInt(1)>>)>>,
      <<"tags", PyList(<<PyStr("a"), PyInt(1)>>)>> }

InitValidate ==
    /\ callValue \in ValidateValues
    /\ callNode \in ValidateNodes
    /\ callOther = PyNone
    /\ callResult = <<>>
    /\ DocumentIdle
    /\ ContractIdle

\* Mutant of Validate: the call fills the object in, as a defaulting
\* validator would.
ValidateFilling ==
    /\ Len(callResult) < MaxCalls
    /\ callResult' = Append(callResult, validate(callValue, callNode, <<"root">>))
    /\ callValue' = IF callValue.k = "dict" /\ ~ Has(callValue.v, "tags")
                    THEN PyDict(Put(callValue.v, "tags", PyList(<<>>)))
                    ELSE callValue
    /\ UNCHANGED <<callOther, callNode, documentVars, contractVars>>

\* validate(callValue, schema=callNode)
Validate ==
    /\ Len(callResult) < MaxCalls
    /\ callResult' = Append(callResult, validate(callValue, callNode, <<"root">>))
    /\ UNCHANGED <<callValue, callOther, callNode, documentVars, contractVars>>

\* value[key] = val, by the caller
PutField(key, val) ==
    /\ callValue.k = "dict"
    /\ callValue' = PyDict(Put(callValue.v, key, val))
    /\ callResult' = <<>>
    /\ UNCHANGED <<callOther, callNode, documentVars, contractVars>>

\* del value[key], by the caller
RemoveField(key) ==
    /\ callValue.k = "dict"
    /\ Has(callValue.v, key)
    /\ callValue' = PyDict(Del(callValue.v, key))
    /\ callResult' = <<>>
    /\ UNCHANGED <<callOther, callNode, documentVars, contractVars>>

NextValidate ==
    \/ Validate
    \/ \E p \in Puttable : PutField(p[1], p[2])
    \/ \E key \in {p[1] : p \in Puttable} : RemoveField(key)

SpecValidate == InitValidate /\ [][NextValidate]_vars

\* validate was called on the current arguments; its outcome.
Called == callResult # <<>>
Outcome1 == callResult[1]
\* The call is on an object against a node that declares its fields.
OnObject == callValue.k = "dict" /\ Declares(callNode, "fields")

-----------------------------------------------------------------------------
(* Properties of validate.                                                 *)

\* The names a node declares required, by either form of declaration.
DeclaredRequired(n) ==
    RequiredOf(n.fields)
      \cup (IF Declares(n, "required_names") THEN Range(n.required_names) ELSE {})

\* C11: validating an object that lacks a field its node declares required,
\* by an object-level list of names or by a per-field marker, raises the
\* SchemaError that lists the missing names sorted.
C11_MissingRequiredRaises ==
    Called /\ OnObject /\ DeclaredRequired(callNode) \ Keys(callValue.v) # {}
        => Outcome1 = SchemaError(<<"root">>, "missing required",
                          Sorted(DeclaredRequired(callNode) \ Keys(callValue.v)))

\* The first rule, the type check, passes.
TypePasses(v, n) ==
    STypeOf(n) = <<>> \/ \E i \in 1..Len(STypeOf(n)) : IsInstance(v, STypeOf(n)[i])

\* The keys of the object its node does not declare, and the object
\* without them.
Extras == Keys(callValue.v) \ DOMAIN callNode.fields
DeclaredOnly == PyDict(SelectSeq(callValue.v, LAMBDA p : p[1] \in DOMAIN callNode.fields))

\* C12: an object with keys its node does not declare is rejected when the
\* node says additionalProperties: false, by the SchemaError that names the
\* undeclared keys sorted (when no required field is missing); when the
\* node leaves additionalProperties unset or true, the outcome is that of
\* the object without the undeclared keys: they pass through unvalidated.
C12_AdditionalProperties ==
    Called /\ OnObject /\ TypePasses(callValue, callNode) /\ Extras # {}
        => IF Declares(callNode, "additionalProperties")
              /\ callNode.additionalProperties = FALSE
           THEN /\ Outcome1.kind = "SchemaError"
                /\ RequiredOf(callNode.fields) \subseteq Keys(callValue.v)
                     => Outcome1 = SchemaError(<<"root">>, "unexpected fields",
                                               Sorted(Extras))
           ELSE Outcome1 = validate(DeclaredOnly, callNode, <<"root">>)

C12_Witness ==
    /\ Called /\ OnObject /\ callNode = PersonClosed
    /\ Extras = {"alpha", "zeta"}
    /\ Outcome1 = SchemaError(<<"root">>, "unexpected fields", <<"alpha", "zeta">>)

\* x is literally one of the members: of the same kind, with the same payload.
LiteralMember(x, enum) == \E i \in 1..Len(enum) : x.k = enum[i].k /\ x = enum[i]

\* C13: against a node with enum, a value that passes the type check passes
\* the enum rule if and only if it is literally one of the members; a case
\* variant of a string member and a boolean against an integer member fail.
C13_EnumExactMatch ==
    Called /\ Declares(callNode, "enum") /\ TypePasses(callValue, callNode)
        => (LiteralMember(callValue, callNode.enum) <=> Outcome1 = Ok)

\* The tags of the type vocabulary and the values each stands for: array
\* and list are two names of the sequence kind.
TypeVocabulary ==
    {"string", "integer", "number", "boolean", "object", "array", "list"}
TagMatches(x, t) ==
    IF t \in {"array", "list"} THEN x.k = "list" ELSE IsInstance(x, t)

\* The tags a node declares: its `type`, else object when it declares the
\* shape of an object with fields or properties.
DeclaredTags(n) ==
    IF Declares(n, "type") THEN n.type
    ELSE IF Declares(n, "fields") \/ Declares(n, "properties") THEN <<"object">>
    ELSE <<>>

\* C14: against a node that declares tags of the type vocabulary, the type
\* check passes if and only if the value matches at least one of the tags;
\* otherwise the call raises the SchemaError that names the expected tags,
\* the kind observed and the path.
C14_TypeUnion ==
    Called /\ DeclaredTags(callNode) # <<>>
           /\ Range(DeclaredTags(callNode)) \subseteq TypeVocabulary
        => LET tags == DeclaredTags(callNode)
           IN  IF \E i \in 1..Len(tags) : TagMatches(callValue, tags[i])
               THEN ~ (/\ Outcome1.kind = "SchemaError"
                       /\ Outcome1.path = <<"root">>
                       /\ Outcome1.rule = "type")
               ELSE Outcome1 = SchemaError(<<"root">>, "type",
                                           <<tags, TypeName(callValue)>>)

\* The alternatives of the node that validate the value.
Matching(v, n) ==
    {i \in 1..Len(n.oneOf) : validate(v, n.oneOf[i], <<"root">>) = Ok}

\* C15: against a node with oneOf, the call passes if and only if at least
\* one alternative validates the value; when every alternative fails, it
\* raises one SchemaError at the node's own path.
C15_OneOf ==
    Called /\ Declares(callNode, "oneOf")
        => /\ Outcome1 = Ok <=> Matching(callValue, callNode) # {}
           /\ Outcome1 # Ok => Outcome1.path = <<"root">> /\ Outcome1.rule = "oneOf"

-----------------------------------------------------------------------------
(* _hash called on its own.  callValue and callOther are two values, and   *)
(* callResult the pairs <<_hash(callValue), _hash(callOther)>> of the      *)
(* calls made on them so far, oldest first.                                *)

Flat        == PyDict(<< <<"a", PyInt(1)>>, <<"b", PyInt(2)>> >>)
\* Flat with a leaf changed, and with a key renamed.
FlatLeaf    == PyDict(<< <<"a", PyInt(1)>>, <<"b", PyInt(3)>> >>)
FlatKey     == PyDict(<< <<"a", PyInt(1)>>, <<"x", PyInt(2)>> >>)
List12      == PyList(<<PyInt(1), PyInt(2)>>)
List21      == PyList(<<PyInt(2), PyInt(1)>>)
Tuple12     == PyTuple(<<PyInt(1), PyInt(2)>>)
\* List12 one level deeper.
Wrapped     == PyList(<<List12>>)
Nested      == PyDict(<< <<"a", Flat>>, <<"b", List12>> >>)
\* Nested with a key renamed, a list reordered and a list made a tuple,
\* one level down.
NestedKey   == PyDict(<< <<"a", FlatKey>>, <<"b", List12>> >>)
NestedOrder == PyDict(<< <<"a", Flat>>, <<"b", List21>> >>)
NestedTuple == PyDict(<< <<"a", Flat>>, <<"b", Tuple12>> >>)
Frame       == DataFrame("df1")
FrameOther  == DataFrame("df2")
\* The dict that _json_safe makes of Frame.
FrameProxy  == PyDict(<< <<"__dataframe_sha256__", Sha256(PyStr("df1"))>> >>)

HashValues ==
    { Flat, FlatLeaf, FlatKey, List12, List21, Tuple12, Wrapped, Nested,
      NestedKey, NestedOrder, NestedTuple, Frame, FrameOther, FrameProxy,
      PyInt(1), PyBool(TRUE), PyStr("a"), PyNone }

RECURSIVE Reorderings(_)

\* The values that x becomes when two neighbouring entries of one of its
\* dicts, at any depth, change places.
Reorderings(x) ==
    CASE x.k = "dict" ->
           {PyDict([i \in 1..Len(x.v) |->
                      IF i = j THEN x.v[j + 1] ELSE IF i = j + 1 THEN x.v[j] ELSE x.v[i]])
              : j \in 1..(Len(x.v) - 1)}
           \cup UNION {{PyDict([x.v EXCEPT ![i] = <<x.v[i][1], y>>])
                          : y \in Reorderings(x.v[i][2])} : i \in 1..Len(x.v)}
      [] x.k \in {"list", "tuple"} ->
           UNION {{[k |-> x.k, v |-> [x.v EXCEPT ![i] = y]]
                     : y \in Reorderings(x.v[i])} : i \in 1..Len(x.v)}
      [] OTHER -> {}

InitHash ==
    /\ callValue \in HashValues
    /\ callOther \in HashValues
    /\ callNode = EmptyNode
    /\ callResult = <<>>
    /\ DocumentIdle
    /\ ContractIdle

\* _hash(callValue), _hash(callOther)
Hash ==
    /\ Len(callResult) < MaxCalls
    /\ callResult' = Append(callResult, <<hash(callValue), hash(callOther)>>)
    /\ UNCHANGED <<callValue, callOther, callNode, documentVars, contractVars>>

\* The caller builds callOther anew, inserting the keys in another order.
Reorder ==
    /\ \E y \in Reorderings(callOther) : callOther' = y
    /\ callResult' = <<>>
    /\ UNCHANGED <<callValue, callNode, documentVars, contractVars>>

NextHash ==
    \/ Hash
    \/ Reorder

SpecHash == InitHash /\ [][NextHash]_vars

-----------------------------------------------------------------------------
(* Properties of _hash.                                                    *)

RECURSIVE SamePairs(_, _)

\* b holds what a holds, its dicts possibly in another insertion order.
SamePairs(a, b) ==
    IF a.k # b.k THEN FALSE
    ELSE CASE a.k = "dict" ->
                /\ Keys(a.v) = Keys(b.v)
                /\ \A key \in Keys(a.v) : SamePairs(Get(a.v, key), Get(b.v, key))
           [] a.k \in {"list", "tuple"} ->
                /\ Len(a.v) = Len(b.v)
                /\ \A i \in 1..Len(a.v) : SamePairs(a.v[i], b.v[i])
           [] OTHER -> a = b

\* C17: repeated calls of _hash on a value give the same digest, and two
\* values that hold the same key/value pairs, inserted in different orders
\* at any depth, have the same digest.
C17_HashIgnoresKeyOrder ==
    /\ \A i \in 1..Len(callResult) : callResult[i] = callResult[1]
    /\ Called /\ SamePairs(callValue, callOther) => Outcome1[1] = Outcome1[2]

C17_Witness ==
    /\ Len(callResult) = 2
    /\ callValue = Nested
    /\ callOther = PyDict(<< <<"b", List12>>,
                             <<"a", PyDict(<< <<"b", PyInt(2)>>, <<"a", PyInt(1)>> >>)>> >>)
    /\ Outcome1[1] = Outcome1[2]

RECURSIVE PyEquals(_, _)

\* a == b in Python, for values that are not DataFrames; two DataFrames
\* are taken as equal when their contents are.
PyEquals(a, b) ==
    IF a.k \in {"int", "bool"} /\ b.k \in {"int", "bool"} THEN PyEq(a, b)
    ELSE IF a.k # b.k THEN FALSE
    ELSE CASE a.k = "dict" ->
                /\ Keys(a.v) = Keys(b.v)
                /\ \A key \in Keys(a.v) : PyEquals(Get(a.v, key), Get(b.v, key))
           [] a.k \in {"list", "tuple"} ->
                /\ Len(a.v) = Len(b.v)
                /\ \A i \in 1..Len(a.v) : PyEquals(a.v[i], b.v[i])
           [] OTHER -> a = b

RECURSIVE IsJson(_)

\* x is built of the kinds JSON has: None, bool, int, str, list and dict.
IsJson(x) ==
    CASE x.k = "dict" -> \A i \in 1..Len(x.v) : IsJson(x.v[i][2])
      [] x.k = "list" -> \A i \in 1..Len(x.v) : IsJson(x.v[i])
      [] OTHER -> x.k \in {"NoneType", "bool", "int", "str", "sha256"}

\* C18, as stated: any two values that differ, be it in a leaf, a key, the
\* order of a sequence, the nesting or the kind of a container, have
\* different digests.
C18_HashSeparatesAllValues ==
    Called /\ ~ PyEquals(callValue, callOther) => Outcome1[1] # Outcome1[2]

\* C18, amended: any two values built of the kinds JSON has (None, bool,
\* int, str, list and dict) that differ, be it in a leaf, a key, the order
\* of a list or the nesting, have different digests.
C18_HashSeparatesJsonValues ==
    Called /\ IsJson(callValue) /\ IsJson(callOther)
           /\ ~ PyEquals(callValue, callOther)
        => Outcome1[1] # Outcome1[2]

C18_Witness ==
    /\ Called
    /\ callValue = NestedOrder /\ callOther = Nested
    /\ Outcome1[1] # Outcome1[2]

-----------------------------------------------------------------------------
(* Contract.parse_and_validate_input.  A dict that the schema or a         *)
(* returned mapping holds as a default is an object of the heap, held by   *)
(* reference: heap[a] is what the object at address a holds now.           *)
(* `returned` are the mappings the calls returned, oldest first;           *)
(* callValue is the source of the last call, callOther the mapping it      *)
(* returned (None when it raised) and callResult its outcome.              *)

\* `returned` keeps the mappings of the first MaxReturned calls that return.
MaxReturned == 2

Ref(a) == [k |-> "ref", v |-> a]

\* The object that the value x of a mapping is, on heap h.
Target(h, x) == IF x.k = "ref" THEN h[x.v] ELSE x
Resolved(h, pairs) ==
    [i \in 1..Len(pairs) |-> <<pairs[i][1], Target(h, pairs[i][2])>>]

\* The address of the dict {} that the schema declares as the default of
\* analytic_parameters.
DefaultAddress == 1

\* An input schema in the shape of analytic_schema.json.
InputSchema ==
    [type |-> <<"object">>,
     fields |->
        [data_source         |-> [type |-> <<"string">>, required |-> TRUE],
         analytic_parameters |-> [type |-> <<"object">>,
                                  default |-> Ref(DefaultAddress)],
         verbosity           |-> [type |-> <<"string">>,
                                  enum |-> <<PyStr("INFO"), PyStr("DEBUG")>>,
                                  default |-> PyStr("INFO")]],
     additionalProperties |-> FALSE]

\* The fields of InputSchema in the order the schema file declares them.
FieldOrder == <<"data_source", "analytic_parameters", "verbosity">>

\* The JSON files on disk, each with the value json.loads makes of its text.
JsonFiles == [p \in {"/tmp/params.json"} |-> PyDict(<< <<"p", PyInt(1)>> >>)]

\* The strings of the model that are JSON texts, each with the value
\* json.loads makes of it; on any other string json.loads raises.
JsonTexts == ("\"123\"" :> PyStr("123")) @@ ("123" :> PyInt(123))

\* Step 2 of parse_and_validate_input on one value: a str that names a file
\* becomes the JSON of the file, a str that is a JSON text becomes its
\* value, anything else is left as it is.
derefJson(x) ==
    IF x.k # "str" THEN x
    ELSE IF x.v \in DOMAIN JsonFiles THEN JsonFiles[x.v]
    ELSE IF x.v \in DOMAIN JsonTexts THEN JsonTexts[x.v]
    ELSE x

RECURSIVE injectDefaults(_, _)

\* Step 3, from field i on: raw[name] = spec["default"] for each absent name.
injectDefaults(raw, i) ==
    IF i > Len(FieldOrder) THEN raw
    ELSE LET name == FieldOrder[i]
             spec == InputSchema.fields[name]
         IN  IF ~ Has(raw, name) /\ Declares(spec, "default")
             THEN injectDefaults(Put(raw, name, spec.default), i + 1)
             ELSE injectDefaults(raw, i + 1)

\* parse_and_validate_input(source) for a source that is a Mapping, on heap
\* h: the mapping built, and Ok or the SchemaError raised in its place.
parse_and_validate_input(h, source) ==
    LET deref == [i \in 1..Len(source) |-> <<source[i][1], derefJson(source[i][2])>>]
        raw   == injectDefaults(deref, 1)
    IN  [raw |-> raw,
         err |-> validate(PyDict(Resolved(h, raw)), InputSchema, <<"root">>)]

\* The mappings callers pass.
DataSources == {"/tmp/data.csv", "\"123\"", "123"}
Sources ==
    {<< <<"data_source", PyStr(ds)>> >> : ds \in DataSources}
    \cup {<< <<"data_source", PyStr(ds)>>, <<"verbosity", PyStr("DEBUG")>> >>
            : ds \in DataSources}
    \cup {<< <<"data_source", PyStr("/tmp/data.csv")>>,
             <<"analytic_parameters", PyStr("/tmp/params.json")>> >>}

InitContract ==
    /\ heap = << PyDict(<<>>) >>
    /\ returned = <<>>
    /\ callValue = PyNone
    /\ callOther = PyNone
    /\ callNode = InputSchema
    /\ callResult = <<>>
    /\ DocumentIdle

\* contract.parse_and_validate_input(source)
Parse(source) ==
    LET r == parse_and_validate_input(heap, source)
    IN  /\ callValue' = PyDict(source)
        /\ callOther' = IF r.err = Ok THEN PyDict(r.raw) ELSE PyNone
        /\ callResult' = <<r.err>>
        /\ returned' = IF r.err = Ok /\ Len(returned) < MaxReturned
                       THEN Append(returned, r.raw) ELSE returned
        /\ UNCHANGED <<heap, callNode, documentVars>>

\* contract.parse_and_validate_input(r) for a mapping r returned before
Reparse(i) == Parse(returned[i])

\* returned[i]["analytic_parameters"]["x"] = 1, by the caller, on the dict
\* that was injected as the default.
Mutate(i) ==
    LET x == Get(returned[i], "analytic_parameters")
    IN  /\ x.k = "ref"
        /\ ~ Has(heap[x.v].v, "x")
        /\ heap' = [heap EXCEPT ![x.v] = PyDict(Put(@.v, "x", PyInt(1)))]
        /\ UNCHANGED <<returned, callVars, documentVars>>

NextContract ==
    \/ \E source \in Sources : Parse(source)
    \/ \E i \in 1..Len(returned) : Reparse(i)
    \/ \E i \in 1..Len(returned) : Mutate(i)

SpecContract == InitContract /\ [][NextContract]_vars

-----------------------------------------------------------------------------
(* Properties of parse_and_validate_input.                                 *)

\* What the schema declares as the default of analytic_parameters, and
\* what the i-th returned mapping holds there.
SchemaDefault == heap[DefaultAddress]
ParametersOf(i) == Target(heap, Get(returned[i], "analytic_parameters"))

\* C19: when a caller mutates the defaulted value inside one returned
\* mapping, the default the schema declares and the values of the other
\* returned mappings stay as they were.
C19_DefaultsAreDeepCopies ==
    [][\A i \in 1..Len(returned) :
          Mutate(i) => /\ SchemaDefault' = SchemaDefault
                       /\ \A j \in 1..Len(returned) :
                             j # i => ParametersOf(j)' = ParametersOf(j)]_vars

\* C20: a call on a mapping that an earlier call returned returns, and
\* returns a mapping equal to its source.
C20_ParseIsIdempotent ==
    Called /\ (\E i \in 1..Len(returned) : PyDict(returned[i]) = callValue)
        => /\ Outcome1 = Ok
           /\ PyEquals(PyDict(Resolved(heap, callOther.v)),
                       PyDict(Resolved(heap, callValue.v)))

-----------------------------------------------------------------------------
(* Further properties of the Document lifecycle.                           *)

\* The document names a model file that is not on disk, and the schema
\* wants its hash, which the caller has not supplied.
ModelFileMissing ==
    /\ "model_file_hash" \in SchemaFields(schema)
    /\ ~ Has(doc, "model_file_hash")
    /\ Has(doc, "model_file_path")
    /\ Get(doc, "model_file_path").k = "str"
    /\ Get(doc, "model_file_path").v \notin DOMAIN DiskFiles

\* C21: finalise() on a document whose schema declares model_file_hash and
\* whose model_file_path names a file that does not exist raises
\* FileNotFoundError, stores no model_file_hash and leaves the flag unset.
C21_MissingModelFileRaises ==
    [][~ finalised /\ ModelFileMissing /\ Finalise
          => /\ Raises("FileNotFoundError")
             /\ ~ Has(doc', "model_file_hash")
             /\ ~ finalised']_vars

\* C22: when the schema declares input_hash, finalise() on a document that
\* holds no `inputs`, or holds one that is not a mapping, raises
\* SchemaError; it completes only with input_hash the hash of a mapping.
C22_InputsRequiredForHash ==
    [][~ finalised /\ "input_hash" \in SchemaFields(schema) /\ Finalise
          => /\ (~ Has(doc, "inputs") \/ Get(doc, "inputs").k # "dict")
                  => Raises("SchemaError")
             /\ finalised'
                  => /\ Has(doc', "inputs") /\ Get(doc', "inputs").k = "dict"
                     /\ Has(doc', "input_hash")
                     /\ Get(doc', "input_hash") = hash(Get(doc', "inputs"))]_vars

-----------------------------------------------------------------------------
(* The Document lifecycle over the schemas that leave a timestamp out,     *)
(* with a DataFrame among the inputs and with every kind of log level.     *)

\* The schemas of test_finalise_missing_initialization_dtg_raises,
\* .._finalization_.. and .._both_..
MissingInitSchema ==
    [type |-> <<"object">>,
     fields |-> [finalization_dtg      |-> DtgNode,
                 total_runtime_seconds |-> [type |-> <<"integer">>]],
     additionalProperties |-> FALSE]
MissingFinalSchema ==
    [type |-> <<"object">>,
     fields |-> [initialization_dtg    |-> DtgNode,
                 total_runtime_seconds |-> [type |-> <<"integer">>]],
     additionalProperties |-> FALSE]
MissingBothSchema ==
    [type |-> <<"object">>,
     fields |-> [total_runtime_seconds |-> [type |-> <<"integer">>]],
     additionalProperties |-> FALSE]

RecordSchemas ==
    {TestSchema, MissingInitSchema, MissingFinalSchema, MissingBothSchema}

\* An `inputs` section that holds a DataFrame.
FrameInputs == PyDict(<< <<"data", Frame>> >>)
RecordKwargs == { <<>>, << <<"inputs", FrameInputs>> >> }

\* The levels callers pass to add_message: two of the closed set, one of
\* them in lower case, and one outside it.
ClosedLevels == {"DEBUG", "INFO", "WARN", "ERROR", "FATAL"}
LogLevels == {"info", "WARN", "trace"}

InitRecord ==
    /\ schema \in RecordSchemas
    /\ clock = 0
    /\ \E kwargs \in RecordKwargs :
         /\ Keys(kwargs) \subseteq SchemaFields(schema)
         /\ doc = DocumentInit(kwargs, clock)
    /\ finalised = FALSE
    /\ file = <<>>
    /\ last = Outcome("__init__", Ok)
    /\ CallIdle
    /\ ContractIdle

NextRecord ==
    \/ Tick
    \/ \E level \in LogLevels : AddMessage(level, "hello")
    \/ Finalise
    \/ Save

SpecRecord == InitRecord /\ [][NextRecord]_vars

\* C23: save() on a finalised document that holds a DataFrame returns and
\* writes the document with the DataFrame replaced by its proxy token, as
\* _json_safe replaces it; the document in memory stays as it was.
C23_SaveSubstitutesFrames ==
    [][finalised /\ ~ JsonEncodable(PyDict(doc)) /\ Save
          => /\ Returns
             /\ file' = <<json_safe(PyDict(doc)).v>>
             /\ doc' = doc]_vars

\* C24: add_message, on a schema that declares messages, appends the entry
\* with the level in upper case when the level is one of DEBUG, INFO,
\* WARN, ERROR, FATAL in any case; with any other level it raises and
\* leaves the message log as it was.
C24_AddMessageClosedLevels ==
    [][\A level \in LogLevels :
          "messages" \in SchemaFields(schema) /\ AddMessage(level, "hello")
            => IF Upper(level) \in ClosedLevels
               THEN /\ Returns
                    /\ Len(MessagesOf(doc').v) = Len(MessagesOf(doc).v) + 1
                    /\ Get(MessagesOf(doc').v[Len(MessagesOf(doc').v)].v, "level")
                         = PyStr(Upper(level))
               ELSE /\ ~ Returns
                    /\ MessagesOf(doc') = MessagesOf(doc)]_vars

\* C28: finalise() on a document whose schema leaves out initialization_dtg
\* or finalization_dtg raises KeyError and leaves the flag unset.
C28_MissingTimestampKeyError ==
    [][/\ ~ finalised
       /\ ~ ({"initialization_dtg", "finalization_dtg"} \subseteq SchemaFields(schema))
       /\ Finalise
          => Raises("KeyError") /\ ~ finalised']_vars


-----------------------------------------------------------------------------
(* Further properties of validate.                                         *)

\* The rule a value breaks at the node itself, in the order of the checks:
\* type, enum, format, missing required, unexpected fields; "none" if none.
NodeRule(v, n) ==
    LET tags  == STypeOf(n)
        isObj == v.k = "dict" /\ Declares(n, "fields")
    IN  IF tags # <<>> /\ \A i \in 1..Len(tags) : ~ IsInstance(v, tags[i])
        THEN "type"
        ELSE IF Declares(n, "enum") /\ ~ InEnum(v, n.enum)
        THEN "enum"
        ELSE IF Declares(n, "format") /\ n.format = "date-time" /\ ~ IsDatetime(v)
        THEN "format"
        ELSE IF isObj /\ RequiredOf(n.fields) \ Keys(v.v) # {}
        THEN "missing required"
        ELSE IF isObj /\ ~ AdditionalProperties(n) /\ Keys(v.v) \ DOMAIN n.fields # {}
        THEN "unexpected fields"
        ELSE "none"

\* The parts of a value in document order, each with its node and the step
\* that leads to it: the entries of an object in the value's key order, the
\* elements of a list in index order.
Parts(v, n) ==
    IF v.k = "dict" /\ Declares(n, "fields")
    THEN [i \in 1..Len(v.v) |->
            [val  |-> v.v[i][2],
             node |-> IF v.v[i][1] \in DOMAIN n.fields
                      THEN n.fields[v.v[i][1]] ELSE EmptyNode,
             step |-> v.v[i][1]]]
    ELSE IF v.k = "list" /\ ItemSchema(n) # <<>>
    THEN [i \in 1..Len(v.v) |->
            [val |-> v.v[i], node |-> ItemSchema(n)[1], step |-> IndexLabel[i]]]
    ELSE <<>>

\* The parts that do not validate on their own.
FailingParts(v, n) ==
    {i \in 1..Len(Parts(v, n)) :
        validate(Parts(v, n)[i].val, Parts(v, n)[i].node, <<>>) # Ok}

Least(S) == CHOOSE i \in S : \A j \in S : i <= j

\* C26: a call raises the one SchemaError of the first violation in
\* depth-first document order: the rule broken at the node itself (type, then
\* enum, format, missing required, unexpected fields) under the caller's root
\* label, else the error of the first part that does not validate, under the
\* root label extended by that part's key or index.
C26_FirstViolationInDocumentOrder ==
    Called =>
        LET rule == NodeRule(callValue, callNode)
            bad  == FailingParts(callValue, callNode)
        IN  IF rule # "none"
            THEN /\ Outcome1.kind = "SchemaError"
                 /\ Outcome1.rule = rule
                 /\ Outcome1.path = <<"root">>
            ELSE IF bad = {}
            THEN Outcome1 = Ok
            ELSE LET first == Parts(callValue, callNode)[Least(bad)]
                     inner == validate(first.val, first.node, <<>>)
                 IN  /\ Outcome1.kind = "SchemaError"
                     /\ Outcome1.rule = inner.rule
                     /\ Outcome1.detail = inner.detail
                     /\ Outcome1.path = <<"root", first.step>> \o inner.path

\* An object with two parts that do not validate, reported at the first, and
\* a violation three levels down.
C26_Witness ==
    /\ Called
    /\ NodeRule(callValue, callNode) = "none"
    /\ \/ /\ Cardinality(FailingParts(callValue, callNode)) >= 2
          /\ Least(FailingParts(callValue, callNode)) > 1
          /\ Outcome1.kind = "SchemaError"
          /\ Len(Outcome1.path) = 2
       \/ /\ callValue = Deep /\ callNode = DeepNode
          /\ Outcome1.kind = "SchemaError"
          /\ Outcome1.path = <<"root", "level1", "level2", "bad_field">>

\* The item schema the elements of a list are held to: `items`, else the
\* scalar schema of `subtype`, else none.
ElementNode(n) ==
    IF Declares(n, "items") THEN n.items ELSE [type |-> <<n.subtype>>]
FailingElements(v, n) ==
    {i \in 1..Len(v.v) : validate(v.v[i], ElementNode(n), <<>>) # Ok}

\* C27: a list that passes the checks of the node itself passes if and only
\* if every element passes the item schema (`items`, else {type: [subtype]});
\* a failure carries the index of the failing element; with neither `items`
\* nor `subtype` the elements are not validated.
C27_ListItems ==
    Called /\ callValue.k = "list" /\ NodeRule(callValue, callNode) = "none"
        => IF Declares(callNode, "items") \/ Declares(callNode, "subtype")
           THEN LET bad == FailingElements(callValue, callNode)
                IN  IF bad = {} THEN Outcome1 = Ok
                    ELSE /\ Outcome1.kind = "SchemaError"
                         /\ Outcome1.path = <<"root", IndexLabel[Least(bad)]>>
           ELSE Outcome1 = Ok

\* A list whose first element passes and whose second does not.
C27_Witness ==
    /\ Called /\ callValue.k = "list" /\ Len(callValue.v) = 2
    /\ Declares(callNode, "subtype") /\ ~ Declares(callNode, "items")
    /\ FailingElements(callValue, callNode) = {2}
    /\ Outcome1.kind = "SchemaError"
    /\ Outcome1.path = <<"root", "[1]">>

\* C29: against the node {type: [string, null]} a value passes if and only
\* if it is a string or None.
C29_NullableString ==
    Called /\ callNode = NullableNode
        => (Outcome1 = Ok <=> (IsStr(callValue) \/ callValue = PyNone))


-----------------------------------------------------------------------------
(* ModelManifest of output.py: a dict with a _finalised flag, validated    *)
(* against the output schema of the model contract.  `doc` holds the       *)
(* manifest, `finalised` its flag, `file` what save wrote.                 *)

StrReq == [type |-> <<"string">>, required |-> TRUE]

\* The output schema of the model contract (model_schema.json).
ManifestSchema ==
    [type |-> <<"object">>,
     fields |->
        [model_type            |-> StrReq,
         learning_task         |-> StrReq,
         author                |-> StrNode,
         initialization_dtg    |-> DtgReq,
         finalization_dtg      |-> DtgReq,
         total_runtime_seconds |-> IntReq,
         export_dtg            |-> DtgReq,
         model_file_hash       |-> StrReq,
         execution_environment |-> [type |-> <<"object">>, required |-> TRUE]],
     additionalProperties |-> FALSE]

\* validate_manifest(manifest): validate(manifest, schema=OUTPUT_SCHEMA)
validate_manifest(d) == validate(PyDict(d), ManifestSchema, <<"root">>)

\* The execution environment finalise() captures.
ManifestEnv ==
    PyDict(<< <<"python_version", PyStr("3.11.4")>>,
              <<"library_dependencies", PyDict(<<>>)>>,
              <<"operating_system", PyStr("Linux 6.1")>>,
              <<"username", PyStr(User)>>,
              <<"hardware_specs", PyDict(<<>>)>> >>)

\* dict.setdefault(key, val)
SetDefault(d, key, val) == IF Has(d, key) THEN d ELSE Put(d, key, val)

\* ModelManifest.__init__(model_type=..., learning_task=..., **kwargs)
ManifestInit(modelType, kwargs, c) ==
    Put(Put(Put(kwargs, "model_type", modelType),
            "learning_task", PyStr("classification")),
        "initialization_dtg", now_iso(c))

\* What the caller passes to the constructor, to finalise and to update_field.
ModelTypes == {PyStr("Dummy"), PyInt(5)}
ManifestKwargs == { <<>>, << <<"author", PyStr("Demo Author")>> >> }
ModelPaths == {"model.bin", "missing.bin"}
ManifestUpdates ==
    { <<"model_type", PyStr("RandomForest")>>, <<"model_type", PyInt(5)>>,
      <<"author", PyNone>> }

\* The body of ModelManifest.finalise(model_path) on an open manifest.
finaliseManifest(d, c, path) ==
    LET d1  == Put(d, "finalization_dtg", now_iso(c))
        idt == FromIso(ReplaceZ(Get(d1, "initialization_dtg").v))
        d2  == Put(d1, "total_runtime_seconds", PyInt(c - idt.sec))
        d3  == SetDefault(d2, "export_dtg", now_iso(c))
        d4  == Put(d3, "model_file_hash", sha256File(path).hex)
        d5  == SetDefault(d4, "execution_environment", ManifestEnv)
        res == validate_manifest(d5)
    IN  IF ~ sha256File(path).ok
        THEN [doc |-> d3, err |-> Raised("FileNotFoundError"), finalised |-> FALSE]
        ELSE [doc |-> d5, err |-> res, finalised |-> res = Ok]

InitManifest ==
    /\ schema = ManifestSchema
    /\ clock = 0
    /\ \E modelType \in ModelTypes, kwargs \in ManifestKwargs :
         doc = ManifestInit(modelType, kwargs, clock)
    /\ finalised = FALSE
    /\ file = <<>>
    /\ last = Outcome("__init__", Ok)
    /\ CallIdle
    /\ ContractIdle

\* ModelManifest.finalise(model_path)
ManifestFinalise(path) ==
    /\ IF finalised
       THEN doc' = doc /\ last' = Outcome("finalise", Ok) /\ finalised' = finalised
       ELSE LET r == finaliseManifest(doc, clock, path)
            IN  /\ doc' = r.doc
                /\ last' = Outcome("finalise", r.err)
                /\ finalised' = r.finalised
    /\ UNCHANGED <<schema, clock, file>>
    /\ UNCHANGED <<callVars, contractVars>>

\* ModelManifest.update_field(field_name, value): the assignment, then the
\* validation of a finalised manifest.
update_field(field_name, val) ==
    /\ doc' = Put(doc, field_name, val)
    /\ last' = Outcome("update_field",
                       IF finalised THEN validate_manifest(doc') ELSE Ok)
    /\ UNCHANGED <<schema, finalised, clock, file>>
    /\ UNCHANGED <<callVars, contractVars>>

\* ModelManifest.save(path)
ManifestSave ==
    /\ IF ~ finalised
       THEN file' = file /\ last' = Outcome("save", Raised("RuntimeError"))
       ELSE IF ~ JsonEncodable(PyDict(doc))
       THEN file' = file /\ last' = Outcome("save", Raised("TypeError"))
       ELSE file' = <<doc>> /\ last' = Outcome("save", Ok)
    /\ UNCHANGED <<schema, doc, finalised, clock>>
    /\ UNCHANGED <<callVars, contractVars>>

NextManifest ==
    \/ Tick
    \/ \E path \in ModelPaths : ManifestFinalise(path)
    \/ \E p \in ManifestUpdates : update_field(p[1], p[2])
    \/ ManifestSave

SpecManifest == InitManifest /\ [][NextManifest]_vars

UpdateStep == \E p \in ManifestUpdates : update_field(p[1], p[2])

\* C30: an update_field call on a finalised manifest that raises leaves the
\* manifest as it was before the call, and every manifest that save() writes
\* satisfies the output schema.
C30_SavedManifestIsValid ==
    [][/\ (finalised /\ UpdateStep /\ Raises("SchemaError")) => doc' = doc
       /\ (ManifestSave /\ file' # file) => validate_manifest(file'[1]) = Ok]_vars


-----------------------------------------------------------------------------
(* OutputDoc of analytic_schema.py: a dict validated by _validate against  *)
(* the output schema of the analytic contract.  `doc` holds the document,  *)
(* `file` what save wrote; `finalised` records that a finalise() call has  *)
(* returned without raising (the class keeps no such flag).                *)

PyFloat(n) == [k |-> "float", v |-> n]

\* isinstance(data, _TYPE_DISPATCH.get(stype)); a tag the table does not
\* hold is not checked.
IsDispatched(x, t) ==
    CASE t = "string"    -> IsStr(x)
      [] t = "integer"   -> x.k \in {"int", "bool"}
      [] t = "number"    -> x.k \in {"int", "bool", "float"}
      [] t = "object"    -> x.k = "dict"
      [] t = "array"     -> x.k = "list"
      [] t = "boolean"   -> x.k = "bool"
      [] t = "dataframe" -> x.k = "DataFrame"
      [] OTHER           -> TRUE

RECURSIVE _validate(_, _, _)
RECURSIVE _validateProperties(_, _, _, _)
RECURSIVE _validateItems(_, _, _, _)

\* for key, val in data.items(): if key in props: _validate(val, props[key])
_validateProperties(pairs, props, path, i) ==
    IF i > Len(pairs) THEN Ok
    ELSE LET key == pairs[i][1]
             r   == IF key \in DOMAIN props
                    THEN _validate(pairs[i][2], props[key], Append(path, key))
                    ELSE Ok
         IN IF r.kind # "none" THEN r
            ELSE _validateProperties(pairs, props, path, i + 1)

\* for idx, item in enumerate(data): _validate(item, items_schema, path[idx])
_validateItems(items, node, path, i) ==
    IF i > Len(items) THEN Ok
    ELSE LET r == _validate(items[i], node, Append(path, IndexLabel[i]))
         IN IF r.kind # "none" THEN r
            ELSE _validateItems(items, node, path, i + 1)

\* analytic_schema._validate(data, node, path=path): Ok, or the SchemaError
\* of the first rule that fails.  `type` is one tag, `required` a list of
\* names, and an object's fields are its `properties`.
_validate(data, node, path) ==
    LET stype    == IF Declares(node, "type") THEN node.type ELSE ""
        props    == IF Declares(node, "properties") THEN node.properties ELSE EmptyNode
        required == IF Declares(node, "required") THEN Range(node.required) ELSE {}
        closed   == Declares(node, "additionalProperties") /\ ~ node.additionalProperties
        unknown  == IF data.k = "dict" THEN Keys(data.v) \ DOMAIN props ELSE {}
        missing  == IF data.k = "dict" THEN required \ Keys(data.v) ELSE {}
    IN  IF stype # "" /\ ~ IsDispatched(data, stype)
        THEN SchemaError(path, "type", <<stype, TypeName(data)>>)
        ELSE IF Declares(node, "enum") /\ ~ InEnum(data, node.enum)
        THEN SchemaError(path, "enum", <<data, node.enum>>)
        ELSE IF /\ Declares(node, "format")
                /\ node.format = "date-time"
                /\ ~ IsDatetime(data)
        THEN SchemaError(path, "format", <<data>>)
        ELSE IF /\ Declares(node, "oneOf")
                /\ \A i \in 1..Len(node.oneOf) : _validate(data, node.oneOf[i], path) # Ok
        THEN SchemaError(path, "oneOf", <<data>>)
        ELSE IF stype = "object"
        THEN IF closed /\ unknown # {}
             THEN SchemaError(path, "unexpected fields", Sorted(unknown))
             ELSE IF missing # {}
             THEN SchemaError(path, "missing required", Sorted(missing))
             ELSE _validateProperties(data.v, props, path, 1)
        ELSE IF stype = "array" /\ Declares(node, "items")
        THEN _validateItems(data.v, node.items, path, 1)
        ELSE Ok

\* The output schema of the analytic contract (analytic_schema.json), with
\* the input schema under properties.inputs.
OutputSchema ==
    [type |-> "object",
     properties |->
        [run_id               |-> [type |-> "string"],
         run_user             |-> [type |-> "string"],
         run_host             |-> [type |-> "string"],
         run_start_dtg        |-> [type |-> "string", format |-> "date-time"],
         run_end_dtg          |-> [type |-> "string", format |-> "date-time"],
         run_duration_seconds |-> [type |-> "number"],
         input_data_hash      |-> [type |-> "string"],
         inputs               |-> [type |-> "object",
                                   properties |-> [input_schema_version |-> [type |-> "string"]]],
         input_hash           |-> [type |-> "string"],
         findings             |-> [type |-> "array", items |-> [type |-> "object"]],
         findings_hash        |-> [type |-> "string"],
         messages             |-> [type |-> "array", items |-> [type |-> "object"]],
         status               |-> [type |-> "string"],
         exit_code            |-> [type |-> "integer"],
         records_processed    |-> [type |-> "integer"]],
     required |-> << "run_id", "inputs", "input_hash", "findings",
                     "findings_hash", "status", "exit_code" >>]

\* The second at which __init__ stamps the private start time.
StartTime == 0

\* OutputDoc.__init__(input_data_hash=..., **kwargs)
OutputDocInit(kwargs, dataHash) ==
    SetDefault(Put(kwargs, "input_data_hash", dataHash), "messages", PyList(<<>>))

\* What the caller passes to OutputDoc(...) and assigns afterwards.
ValidatedInputs == PyDict(<< <<"input_schema_version", PyStr("1.0.0")>> >>)
OutputKwargs ==
    { <<>>,
      << <<"inputs", ValidatedInputs>> >>,
      << <<"inputs", ValidatedInputs>>, <<"run_id", PyStr("caller-run")>> >>,
      << <<"inputs", ValidatedInputs>>, <<"findings", PyStr("none")>> >> }
OutputAssignable ==
    { <<"status", PyInt(5)>>, <<"findings", PyList(<<>>)>> }

\* The body of OutputDoc.finalise().
finaliseOutputDoc(d, c, uuid) ==
    LET inputs == Get(d, "inputs")
        d1 == SetDefault(d, "run_id", PyStr(uuid))
        d2 == SetDefault(d1, "run_user", PyStr(User))
        d3 == SetDefault(d2, "run_host", PyStr(Host))
        d4 == SetDefault(d3, "run_start_dtg", now_iso(StartTime))
        d5 == SetDefault(d4, "run_end_dtg", now_iso(c))
        d6 == SetDefault(d5, "run_duration_seconds", PyFloat(c - StartTime))
        d7 == Put(d6, "input_hash", hash(inputs))
        d8 == SetDefault(d7, "findings", PyList(<<>>))
        d9 == Put(d8, "findings_hash", hash(Get(d8, "findings")))
        dA == SetDefault(d9, "input_schema_version",
                         GetOr(inputs.v, "input_schema_version", PyStr("UNKNOWN")))
        dB == SetDefault(dA, "output_schema_version", PyStr("UNKNOWN"))
        dC == SetDefault(dB, "analytic_id", PyStr("UNKNOWN"))
        dD == SetDefault(dC, "analytic_name", PyStr("UNKNOWN"))
        dE == SetDefault(dD, "analytic_version", PyStr("UNKNOWN"))
        dF == SetDefault(dE, "status", PyStr("UNKNOWN"))
        dG == SetDefault(dF, "exit_code", PyInt(-1))
        dH == SetDefault(dG, "records_processed", PyInt(0))
    IN  IF ~ Has(d, "inputs") \/ inputs.k # "dict"
        THEN [doc |-> d, err |-> SchemaError(<<"OutputDoc">>, "inputs", <<>>)]
        ELSE IF Get(d8, "findings").k # "list"
        THEN [doc |-> d8, err |-> SchemaError(<<"OutputDoc">>, "findings", <<>>)]
        ELSE [doc |-> dH, err |-> _validate(PyDict(dH), OutputSchema, <<"OutputDoc">>)]

InitOutputDoc ==
    /\ schema = EmptyNode
    /\ clock = 0
    /\ \E kwargs \in OutputKwargs : doc = OutputDocInit(kwargs, ZeroHash)
    /\ finalised = FALSE
    /\ file = <<>>
    /\ last = Outcome("__init__", Ok)
    /\ CallIdle
    /\ ContractIdle

\* doc[key] = value, by the caller
OutputDocSetItem(key, val) ==
    /\ doc' = Put(doc, key, val)
    /\ last' = Outcome("__setitem__", Ok)
    /\ UNCHANGED <<schema, finalised, clock, file>>
    /\ UNCHANGED <<callVars, contractVars>>

\* OutputDoc.add_message(level, text)
OutputDocAddMessage(level, text) ==
    /\ IF Upper(level) \notin ClosedLevels
       THEN doc' = doc /\ last' = Outcome("add_message", Raised("ValueError"))
       ELSE /\ Len(Get(doc, "messages").v) < MaxMessages
            /\ doc' = Put(doc, "messages",
                          PyList(Append(Get(doc, "messages").v,
                                        PyDict(<< <<"timestamp", now_iso(clock)>>,
                                                  <<"level", PyStr(Upper(level))>>,
                                                  <<"text", PyStr(text)>> >>))))
            /\ last' = Outcome("add_message", Ok)
    /\ UNCHANGED <<schema, finalised, clock, file>>
    /\ UNCHANGED <<callVars, contractVars>>

\* OutputDoc.finalise()
OutputDocFinalise ==
    /\ \E uuid \in Uuids :
         LET r == finaliseOutputDoc(doc, clock, uuid)
         IN  /\ doc' = r.doc
             /\ last' = Outcome("finalise", r.err)
             /\ finalised' = (finalised \/ r.err = Ok)
    /\ UNCHANGED <<schema, clock, file>>
    /\ UNCHANGED <<callVars, contractVars>>

\* OutputDoc.save(path): refused while run_id is missing or falsy, else the
\* document passed through _json_safe is written.
OutputDocSave ==
    /\ IF ~ Truthy(doc, "run_id")
       THEN file' = file /\ last' = Outcome("save", Raised("RuntimeError"))
       ELSE file' = <<json_safe(PyDict(doc)).v>> /\ last' = Outcome("save", Ok)
    /\ UNCHANGED <<schema, doc, finalised, clock>>
    /\ UNCHANGED <<callVars, contractVars>>

NextOutputDoc ==
    \/ Tick
    \/ \E p \in OutputAssignable : OutputDocSetItem(p[1], p[2])
    \/ \E level \in LogLevels : OutputDocAddMessage(level, "hello")
    \/ OutputDocFinalise
    \/ OutputDocSave

SpecOutputDoc == InitOutputDoc /\ [][NextOutputDoc]_vars

\* C25: while no finalise() call has completed on the document, save()
\* raises RuntimeError and writes nothing.
C25_OutputDocSaveOnlyAfterFinalise ==
    [][~ finalised /\ OutputDocSave
          => Raises("RuntimeError") /\ file' = file]_vars

=============================================================================
